---- MODULE Spec2Model ----
(***************************************************************************)
(* Client-side session state machine of the Mortgage Document Automation   *)
(* front end (the App component): the collection of processed-file         *)
(* records, the asynchronous /classify request lifecycle, the preview      *)
(* selection, the error banner, the export and the per-record status icon. *)
(***************************************************************************)
EXTENDS Integers, Sequences, FiniteSets, TLC

VARIABLES
    files,          \* useState([])   : the record collection
    loading,        \* useState(false)
    error,          \* useState(null) : the banner message
    selectedFile,   \* useState(null) : the record shown in the preview modal
    inflight,       \* axios.post promises not yet settled
    submitted,      \* how many times onDrop has run
    now,            \* Date.now() as last read
    last            \* the handler that ran last, its input and its result

vars == <<files, loading, error, selectedFile, inflight, submitted, now, last>>

----------------------------------------------------------------------------
(* Bounds of the exploration *)

MaxSubmits == 2     \* drops per session
MaxFiles == 3       \* records in the collection, those still requested included
MaxClock == 1       \* Date.now() ranges over 0..MaxClock (ms since the session began)

----------------------------------------------------------------------------
(* JavaScript values *)

Undefined == [t |-> "undefined"]
Null == [t |-> "null"]
JSTrue == [t |-> "bool", v |-> "true"]
JSFalse == [t |-> "bool", v |-> "false"]
Str(s) == [t |-> "str", v |-> s]
EmptyObject == [t |-> "obj"]

\* ToBoolean: what `x ? a : b`, `x || y` and `x && y` test
Truthy(x) ==
    CASE x.t = "undefined" -> FALSE
      [] x.t = "null" -> FALSE
      [] x.t = "bool" -> x.v = "true"
      [] x.t = "str" -> x.v # ""
      [] OTHER -> TRUE

\* x || y
JSOr(x, y) == IF Truthy(x) THEN x ELSE y

\* x?.is_valid
OptIsValid(x) == IF x.t \in {"undefined", "null"} THEN Undefined ELSE x.is_valid

Validation(b) == [t |-> "obj", is_valid |-> b]

----------------------------------------------------------------------------
(* The /classify response *)

\* the names of the files a user drops, in the order they are dropped
DroppedNames == <<"a.pdf", "b.png">>

\* one entry's value in the response body
Data(cat, sub, idv, datev, err) ==
    [t |-> "obj", renamed |-> Str(cat \o "_" \o sub), category |-> Str(cat),
     subcategory |-> Str(sub), text |-> Str("text of " \o sub),
     metadata |-> Undefined, id_validation |-> idv, date_validation |-> datev,
     error |-> err]

PassportData == Data("ID", "Passport", Validation(JSTrue), Undefined, Undefined)
FailedData == Data("Error", "Unreadable", Undefined, Undefined, Str("OCR failed"))

\* what the backend answers for a file: its classification (a.pdf is a
\* passport, b.png cannot be read and carries a per-file error) or JSON null
DataFor(name) ==
    IF name = "a.pdf" THEN {PassportData, Null} ELSE {FailedData, Null}

\* the accepted-file lists a drop can hand to onDrop: possibly empty (every
\* file rejected by the accept/maxSize filter)
AcceptedLists == {SubSeq(DroppedNames, 1, n) : n \in 0..Len(DroppedNames)}

\* Object.entries(res.data) of a 2xx response to a request for `names`
Bodies(names) ==
    {b \in [1..Len(names) -> [name : {names[i] : i \in 1..Len(names)},
                              data : {PassportData, FailedData, Null}]] :
        \A i \in 1..Len(names) : b[i].name = names[i] /\ b[i].data \in DataFor(names[i])}

----------------------------------------------------------------------------
(* Failures of axios.post and of the normalisation *)

HttpStatuses == {404, 422, 500}

TimeoutErr ==
    [cause |-> "timeout", code |-> "ECONNABORTED", hasResponse |-> FALSE,
     status |-> 0, message |-> "timeout of 30000ms exceeded"]
NetworkErr ==
    [cause |-> "network", code |-> "ERR_NETWORK", hasResponse |-> FALSE,
     status |-> 0, message |-> "Network Error"]
HttpErr(s) ==
    [cause |-> "http", code |-> IF s >= 500 THEN "ERR_BAD_RESPONSE" ELSE "ERR_BAD_REQUEST",
     hasResponse |-> TRUE, status |-> s,
     message |-> "Request failed with status code " \o ToString(s)]
\* data.renamed with data = null
TypeErr ==
    [cause |-> "exception", code |-> "", hasResponse |-> FALSE, status |-> 0,
     message |-> "Cannot read properties of null (reading 'renamed')"]

TransportErrs == {TimeoutErr, NetworkErr} \cup {HttpErr(s) : s \in HttpStatuses}

TimeoutMessage == "Request timeout - please try with smaller files or fewer files at once"
FormatMessage == "Invalid file format - please upload PDF, PNG, JPG, or JPEG files"
ServerMessage == "Server error - please check if the backend is running"
OtherMessage(m) == "Classification failed: " \o m

\* faulty variant of the catch block: the server branch tests > 500
CatchMessageStrict(err) ==
    IF err.code = "ECONNABORTED" THEN TimeoutMessage
    ELSE IF err.hasResponse /\ err.status = 422 THEN FormatMessage
    ELSE IF err.hasResponse /\ err.status > 500 THEN ServerMessage
    ELSE OtherMessage(err.message)

\* the catch block of onDrop
CatchMessage(err) ==
    IF err.code = "ECONNABORTED" THEN TimeoutMessage
    ELSE IF err.hasResponse /\ err.status = 422 THEN FormatMessage
    ELSE IF err.hasResponse /\ err.status >= 500 THEN ServerMessage
    ELSE OtherMessage(err.message)

----------------------------------------------------------------------------
(* Normalisation of a response into records *)

\* the object literal of the map callback; data is not null
NewFile(id, name, data) ==
    [t |-> "file", id |-> id, originalName |-> Str(name), renamed |-> data.renamed,
     category |-> data.category, subcategory |-> data.subcategory,
     preview |-> data.text, metadata |-> JSOr(data.metadata, EmptyObject),
     idValidation |-> data.id_validation, dateValidation |-> data.date_validation,
     hasError |-> Truthy(data.error), error |-> data.error]

\* the values of Math.random() that Date.now() + Math.random() tells apart,
\* numbered: a double near 1.7e12 has a spacing of 2^-12, the sum takes 4096
\* values per millisecond, two of them stand for all
RandomValues == {0, 1}

\* Date.now() + Math.random(), in units of the spacing
NewId(clock, rnd) == clock * Cardinality(RandomValues) + rnd

\* reading a property of null throws: the map callback's data.renamed
Throws(body) == \E i \in 1..Len(body) : body[i].data = Null

\* faulty variant of the map: an entry that carries an error yields no record
NewFilesSkipErrors(body, clock, rnd) ==
    LET sound == SelectSeq([i \in 1..Len(body) |-> [e |-> body[i], r |-> rnd[i]]],
                           LAMBDA x : ~Truthy(x.e.data.error))
    IN [i \in 1..Len(sound) |-> NewFile(NewId(clock, sound[i].r), sound[i].e.name, sound[i].e.data)]

\* Object.entries(res.data).map(...), when no callback throws
NewFiles(body, clock, rnd) ==
    [i \in 1..Len(body) |-> NewFile(NewId(clock, rnd[i]), body[i].name, body[i].data)]

\* faulty variant of the updater: the new records go first
AppendFilesFront(prev, newFiles) == newFiles \o prev

\* faulty variant of the updater: it spreads the files of onDrop's closure,
\* which useCallback(..., []) fixes to the first render's empty array
AppendFilesStale(prev, newFiles) == <<>> \o newFiles

\* the updater handed to setFiles on success
AppendFiles(prev, newFiles) == prev \o newFiles

\* the entries in front of the first one whose value is null
RECURSIVE SoundPrefix(_)
SoundPrefix(body) ==
    IF body = <<>> \/ Head(body).data = Null THEN <<>>
    ELSE <<Head(body)>> \o SoundPrefix(Tail(body))

\* faulty variant: every entry is appended as soon as it is mapped, so the
\* ones in front of the throwing entry stay in the collection
FilesAfterThrowPartial(prev, body, clock, rnd) ==
    prev \o NewFiles(SoundPrefix(body), clock, rnd)

\* the collection after the try block was left by a throw: setFiles, the
\* statement after the map, was not reached
FilesAfterThrow(prev, body, clock, rnd) == prev

\* faulty variant of the filter: the test is inverted
RemoveFilterInverted(prev, fileId) == SelectSeq(prev, LAMBDA f : f.id = fileId)

\* the updater handed to setFiles by removeFile
RemoveFilter(prev, fileId) == SelectSeq(prev, LAMBDA f : f.id # fileId)

\* a === b on the values modelled here (no two objects are compared)
StrictEq(a, b) == a = b

----------------------------------------------------------------------------
(* Presentation and export *)

RedAlertCircle == "AlertCircle text-red-500"
GreenCheckCircle == "CheckCircle text-green-500"
YellowAlertCircle == "AlertCircle text-yellow-500"
GrayClock == "Clock text-gray-400"

\* faulty variant: the negative test comes before the positive one
getValidationIconNegativeFirst(file) ==
    IF file.hasError THEN RedAlertCircle
    ELSE IF \/ StrictEq(OptIsValid(file.idValidation), JSFalse)
            \/ StrictEq(OptIsValid(file.dateValidation), JSFalse)
    THEN YellowAlertCircle
    ELSE IF Truthy(JSOr(OptIsValid(file.idValidation), OptIsValid(file.dateValidation)))
    THEN GreenCheckCircle
    ELSE GrayClock

getValidationIcon(file) ==
    IF file.hasError THEN RedAlertCircle
    ELSE IF Truthy(JSOr(OptIsValid(file.idValidation), OptIsValid(file.dateValidation)))
    THEN GreenCheckCircle
    ELSE IF \/ StrictEq(OptIsValid(file.idValidation), JSFalse)
            \/ StrictEq(OptIsValid(file.dateValidation), JSFalse)
    THEN YellowAlertCircle
    ELSE GrayClock

\* faulty variant of the object literal: the extracted text is exported too
ResultObjectWithPreview(file) ==
    [original_name |-> file.originalName, renamed |-> file.renamed,
     category |-> file.category, subcategory |-> file.subcategory,
     metadata |-> file.metadata, preview |-> file.preview,
     validation |-> [t |-> "obj", id_validation |-> file.idValidation,
                     date_validation |-> file.dateValidation]]

\* the object literal of the map callback of downloadResults
ResultObject(file) ==
    [original_name |-> file.originalName, renamed |-> file.renamed,
     category |-> file.category, subcategory |-> file.subcategory,
     metadata |-> file.metadata,
     validation |-> [t |-> "obj", id_validation |-> file.idValidation,
                     date_validation |-> file.dateValidation]]

\* JSON.stringify of an object: a member whose value is undefined is left out
JSONObject(obj, keys) == [k \in {x \in keys : obj[x].t # "undefined"} |-> obj[k]]

JSONResult(obj) ==
    LET outer == JSONObject(obj, DOMAIN obj)
    IN [k \in DOMAIN outer |->
          IF k = "validation"
          THEN JSONObject(obj.validation, {"id_validation", "date_validation"})
          ELSE outer[k]]

\* JSON.stringify(files.map(...)): the array the downloaded text denotes
ExportedResults(fs) == [i \in 1..Len(fs) |-> JSONResult(ResultObject(fs[i]))]

\* the property key acc[file.category] reads and writes: ToString(category)
PropertyKey(x) == IF x.t = "str" THEN x.v ELSE x.t

\* the index of the group keyed k in acc, 0 when acc[k] is undefined
GroupIndex(acc, k) ==
    IF \E i \in 1..Len(acc) : acc[i].category = k
    THEN CHOOSE i \in 1..Len(acc) : acc[i].category = k
    ELSE 0

\* faulty variant of the reducer callback: unshift instead of push
GroupStepFront(acc, file) ==
    LET k == PropertyKey(file.category)
        created == IF GroupIndex(acc, k) = 0
                   THEN Append(acc, [category |-> k, files |-> <<>>])
                   ELSE acc
        g == GroupIndex(created, k)
    IN [created EXCEPT ![g].files = <<file>> \o @]

\* the reducer callback: if (!acc[k]) acc[k] = []; acc[k].push(file)
GroupStep(acc, file) ==
    LET k == PropertyKey(file.category)
        created == IF GroupIndex(acc, k) = 0
                   THEN Append(acc, [category |-> k, files |-> <<>>])
                   ELSE acc
        g == GroupIndex(created, k)
    IN [created EXCEPT ![g].files = Append(@, file)]

\* files.reduce(callback, {}), read as Object.entries(grouped): the groups in
\* the order their keys were created
RECURSIVE Reduce(_, _)
Reduce(fs, acc) ==
    IF fs = <<>> THEN acc ELSE Reduce(Tail(fs), GroupStep(acc, Head(fs)))

grouped(fs) == Reduce(fs, <<>>)

\* every value Date.now() + Math.random() takes within the clock's range
IdDomain == {NewId(clock, rnd) : clock \in 0..MaxClock, rnd \in RandomValues}

----------
(* State machine *)

\* some live record carries the id
Live(id) == \E i \in 1..Len(files) : files[i].id = id

Init ==
    /\ files = <<>>
    /\ loading = FALSE
    /\ error = Null
    /\ selectedFile = Null
    /\ inflight = {}
    /\ submitted = 0
    /\ now = 0
    /\ last = [op |-> "init"]

\* how many records the outstanding requests can still add
RECURSIVE Requested(_)
Requested(reqs) ==
    IF reqs = {} THEN 0
    ELSE LET r == CHOOSE x \in reqs : TRUE
         IN Len(r.names) + Requested(reqs \ {r})

\* onDrop up to the await: the dropzone is never disabled
OnDrop(acceptedFiles) ==
    /\ submitted < MaxSubmits
    /\ Len(files) + Requested(inflight) + Len(acceptedFiles) <= MaxFiles
    /\ loading' = TRUE
    /\ error' = Null
    /\ inflight' = inflight \cup {[rid |-> submitted + 1, names |-> acceptedFiles]}
    /\ submitted' = submitted + 1
    /\ last' = [op |-> "onDrop", rid |-> submitted + 1, acceptedFiles |-> acceptedFiles]
    /\ UNCHANGED <<files, selectedFile, now>>

\* faulty variant: no finally block, the flag stays as it is
FinallyLoadingKept(prev) == prev

\* the finally block of onDrop: setLoading(false)
FinallyLoading(prev) == FALSE

\* onDrop after the await, the promise fulfilled and the map ran through;
\* clock is what Date.now() returns by then
Succeed(req, body, clock, rnd) ==
    /\ req \in inflight
    /\ ~Throws(body)
    /\ files' = AppendFiles(files, NewFiles(body, clock, rnd))
    /\ loading' = FinallyLoading(loading)
    /\ inflight' = inflight \ {req}
    /\ now' = clock
    /\ last' = [op |-> "success", req |-> req]
    /\ UNCHANGED <<error, selectedFile, submitted>>

\* onDrop after the await, through catch and finally; filesAfter is the
\* collection the try block left
Caught(req, err, filesAfter) ==
    /\ req \in inflight
    /\ files' = filesAfter
    /\ error' = Str(CatchMessage(err))
    /\ loading' = FinallyLoading(loading)
    /\ inflight' = inflight \ {req}
    /\ last' = [op |-> "failure", req |-> req, err |-> err]
    /\ UNCHANGED <<selectedFile, submitted, now>>

\* the promise rejected: timeout, non-2xx status, network failure
Reject(req, err) == Caught(req, err, files)

\* the promise fulfilled and the map callback threw
NormalizeThrows(req, body, rnd) ==
    /\ Throws(body)
    /\ Caught(req, TypeErr, FilesAfterThrow(files, body, now, rnd))

ClearFiles ==
    /\ Len(files) > 0
    /\ files' = <<>>
    /\ error' = Null
    /\ last' = [op |-> "clearFiles"]
    /\ UNCHANGED <<loading, selectedFile, inflight, submitted, now>>

\* an id that no record carries: Date.now() + Math.random() is not negative
StaleId == -1

\* the X button of a rendered record passes that record's id; the function
\* itself takes any id and returns nothing
RemoveFile(fileId) ==
    /\ Live(fileId) \/ fileId = StaleId
    /\ files' = RemoveFilter(files, fileId)
    /\ last' = [op |-> "removeFile", fileId |-> fileId, ret |-> Undefined]
    /\ UNCHANGED <<loading, error, selectedFile, inflight, submitted, now>>

\* the Eye button of a rendered record
SetSelectedFile(i) ==
    /\ i \in 1..Len(files)
    /\ selectedFile' = files[i]
    /\ last' = [op |-> "setSelectedFile"]
    /\ UNCHANGED <<files, loading, error, inflight, submitted, now>>

\* the X button of the preview modal
ClosePreview ==
    /\ Truthy(selectedFile)
    /\ selectedFile' = Null
    /\ last' = [op |-> "closePreview"]
    /\ UNCHANGED <<files, loading, error, inflight, submitted, now>>

\* the X button of the error banner
DismissError ==
    /\ Truthy(error)
    /\ error' = Null
    /\ last' = [op |-> "dismissError"]
    /\ UNCHANGED <<files, loading, selectedFile, inflight, submitted, now>>

\* the Download Results button, rendered while the collection is not empty
DownloadResults ==
    /\ Len(files) > 0
    /\ last' = [op |-> "downloadResults", results |-> ExportedResults(files)]
    /\ UNCHANGED <<files, loading, error, selectedFile, inflight, submitted, now>>

\* one render of the results list: the icon of every record
Render ==
    /\ Len(files) > 0
    /\ last' = [op |-> "render",
                icons |-> [i \in 1..Len(files) |-> getValidationIcon(files[i])],
                grouped |-> grouped(files)]
    /\ UNCHANGED <<files, loading, error, selectedFile, inflight, submitted, now>>

Rnds(n) == [1..n -> RandomValues]

Next ==
    \/ \E a \in AcceptedLists : OnDrop(a)
    \/ \E r \in inflight : \E b \in Bodies(r.names) : \E clock \in now..MaxClock :
          \E rnd \in Rnds(Len(b)) : Succeed(r, b, clock, rnd)
    \/ \E r \in inflight : \E e \in TransportErrs : Reject(r, e)
    \/ \E r \in inflight : \E b \in Bodies(r.names) : \E rnd \in Rnds(Len(b)) : NormalizeThrows(r, b, rnd)
    \/ ClearFiles
    \/ \E id \in IdDomain \cup {StaleId} : RemoveFile(id)
    \/ \E i \in 1..Len(files) : SetSelectedFile(i)
    \/ ClosePreview
    \/ DismissError
    \/ DownloadResults

Spec == Init /\ [][Next]_vars

\* the promise of an outstanding request settles: fulfilled, rejected, or
\* rejected by the 30 s timeout
Settle ==
    \E r \in inflight :
        \/ \E b \in Bodies(r.names) : \E clock \in now..MaxClock :
              \E rnd \in Rnds(Len(b)) : Succeed(r, b, clock, rnd)
        \/ \E e \in TransportErrs : Reject(r, e)
        \/ \E b \in Bodies(r.names) : \E rnd \in Rnds(Len(b)) : NormalizeThrows(r, b, rnd)

\* the handlers that read or write loading, inflight, files or error; the
\* preview and the export write selectedFile and nothing else of the session
NextLive ==
    \/ \E a \in AcceptedLists : OnDrop(a)
    \/ Settle
    \/ ClearFiles
    \/ \E id \in IdDomain \cup {StaleId} : RemoveFile(id)
    \/ DismissError

\* the request lifecycle when every request is eventually answered or times out
SpecLive == Init /\ [][NextLive]_vars /\ WF_vars(Settle)

----------------------------------------------------------------------------
(* The view of one batch: the collection after one successful response that  *)
(* ranges over every shape of entry, then rendered and exported              *)

MaxView == 2        \* entries of the batch

\* every shape of the validations with and without a per-file error, and an
\* unvalidated entry whose error member is null or the empty string
ViewDataSet ==
    {Data(IF idv.t = "obj" THEN "ID" ELSE "Income", "Doc", idv, datev, err) :
        idv \in {Undefined, Null, Validation(JSTrue), Validation(JSFalse)},
        datev \in {Undefined, Validation(JSTrue), Validation(JSFalse)},
        err \in {Undefined, Str("OCR failed")}}
    \cup {Data("Income", "Doc", Undefined, Undefined, err) : err \in {Null, Str("")}}

ViewNames == <<"a.pdf", "b.png", "c.jpg">>

ViewBodies ==
    UNION {{[i \in 1..n |-> [name |-> ViewNames[i], data |-> d[i]]] :
               d \in [1..n -> ViewDataSet]} : n \in 1..MaxView}

InitView ==
    /\ \E b \in ViewBodies : \E rnd \in Rnds(Len(b)) :
          /\ files = NewFiles(b, 0, rnd)
          /\ last = [op |-> "success",
                     req |-> [rid |-> 1, names |-> [i \in 1..Len(b) |-> b[i].name]]]
    /\ loading = FALSE
    /\ error = Null
    /\ selectedFile = Null
    /\ inflight = {}
    /\ submitted = 1
    /\ now = 0

NextView ==
    \/ Render
    \/ DownloadResults

SpecView == InitView /\ [][NextView]_vars

----------------------------------------------------------------------------
(* Properties *)

\* a step in which a request settled
Settled == inflight' # inflight

\* C1: the ids of the records of the live collection are pairwise distinct.
C1_UniqueIds ==
    \A i, j \in 1..Len(files) : i # j => files[i].id # files[j].id

\* C2: while a preview is open, the previewed record is a member of the
\* live collection.
C2_PreviewIsLive ==
    Truthy(selectedFile) => \E i \in 1..Len(files) : files[i] = selectedFile

\* C3: at most one upload request is outstanding.
C3_SingleSubmission == Cardinality(inflight) <= 1

\* C4: in the state right after a submission completed successfully and its
\* records were appended, no error message is shown.
C4_SuccessLeavesNoError ==
    (last.op = "success" /\ Len(last.req.names) > 0) => error = Null

\* C5: handling a failed submission (rejected promise or exception while
\* normalising) leaves the collection as it was and sets the error message.
C5_FailureKeepsCollection ==
    [][(Settled /\ last'.op = "failure") => (files' = files /\ Truthy(error'))]_vars

C5_Witness ==
    /\ last.op = "failure"
    /\ last.err.cause = "exception"
    /\ Len(last.req.names) = 2
    /\ Len(files) > 0
    /\ Truthy(error)

\* C6: a successful completion leaves the existing records in place and adds,
\* behind them, one record per entry of the response in the response's order.
C6_AppendKeepsOrder ==
    [][(Settled /\ last'.op = "success") =>
          LET names == last'.req.names
          IN /\ Len(files') = Len(files) + Len(names)
             /\ SubSeq(files', 1, Len(files)) = files
             /\ \A i \in 1..Len(names) :
                    files'[Len(files) + i].originalName = Str(names[i])]_vars

C6_Witness ==
    /\ last.op = "success"
    /\ Len(last.req.names) = 2
    /\ Len(files) = 3
    /\ files[1].originalName = Str("a.pdf")
    /\ files[2].originalName = Str("a.pdf")
    /\ files[3].originalName = Str("b.png")

IsValidTrue(v) == v.t = "obj" /\ v.is_valid = JSTrue
IsValidFalse(v) == v.t = "obj" /\ v.is_valid = JSFalse

\* the status the precedence rules give a record
PresentationStatus(file) ==
    IF file.hasError THEN "Error"
    ELSE IF IsValidTrue(file.idValidation) \/ IsValidTrue(file.dateValidation)
    THEN "Validated"
    ELSE IF IsValidFalse(file.idValidation) \/ IsValidFalse(file.dateValidation)
    THEN "PartiallyInvalid"
    ELSE "Pending"

\* the status an icon stands for
IconStatus(icon) ==
    CASE icon = RedAlertCircle -> "Error"
      [] icon = GreenCheckCircle -> "Validated"
      [] icon = YellowAlertCircle -> "PartiallyInvalid"
      [] icon = GrayClock -> "Pending"

\* C8: the icon getValidationIcon picks for a record stands for the status
\* the precedence rules give it: Error iff hasError, else Validated iff either
\* is_valid is true, else PartiallyInvalid iff either is false, else Pending.
C8_IconFollowsPrecedence ==
    last.op = "render" =>
        \A i \in 1..Len(files) : IconStatus(last.icons[i]) = PresentationStatus(files[i])

C8_Witness ==
    /\ last.op = "render"
    /\ \E i \in 1..Len(files) :
          /\ ~files[i].hasError
          /\ IsValidFalse(files[i].idValidation)
          /\ IsValidTrue(files[i].dateValidation)
          /\ last.icons[i] = GreenCheckCircle

\* C9: the export of N records is an array of N objects in collection order,
\* the i-th carrying the i-th record's originalName as original_name, none
\* carrying the preview text; exporting leaves the collection unchanged.
C9_ExportShape ==
    /\ [](last.op = "downloadResults" =>
            /\ Len(last.results) = Len(files)
            /\ \A i \in 1..Len(files) :
                  LET r == last.results[i]
                  IN /\ "original_name" \in DOMAIN r
                     /\ r["original_name"] = files[i].originalName
                     /\ "preview" \notin DOMAIN r
                     /\ \A k \in DOMAIN r : r[k] # files[i].preview)
    /\ [][last'.op = "downloadResults" => files' = files]_vars

C9_Witness ==
    /\ last.op = "downloadResults"
    /\ Len(files) = 2
    /\ Len(last.results) = 2
    /\ files[1].originalName # files[2].originalName

\* the message the failure taxonomy assigns to a failure
MappedMessage(err) ==
    CASE err.cause = "timeout" -> TimeoutMessage
      [] err.cause = "http" /\ err.status = 422 -> FormatMessage
      [] err.cause = "http" /\ err.status >= 500 -> ServerMessage
      [] OTHER -> "Classification failed: " \o err.message

\* C10: after a failure the error message is the one its kind maps to
\* (timeout, 422, status >= 500, anything else with its text), whatever
\* message was shown before.
C10_FailureMapping == last.op = "failure" => error = Str(MappedMessage(last.err))

C10_Witness ==
    /\ last.op = "failure"
    /\ last.err.cause = "http"
    /\ last.err.status = 500
    /\ error = Str(ServerMessage)
    /\ last.req.rid = 2

\* C11: onDrop with an empty accepted-file list sends no request and leaves
\* the collection, the loading flag and the error as they were.
C11_EmptyDropIsNoOp ==
    [][(last'.op = "onDrop" /\ submitted' # submitted /\ last'.acceptedFiles = <<>>) =>
          (inflight' = inflight /\ files' = files /\ loading' = loading /\ error' = error)]_vars

\* the records a successful response added, behind the records kept
Added(before, after) == SubSeq(after, Len(before) + 1, Len(after))

\* C12: a response in which b.png carries a per-file error is appended whole:
\* one record per entry, the erroneous one with hasError and its message, its
\* sibling without, and the success does not set the session error.
C12_EntryErrorKeepsBatch ==
    [][(Settled /\ last'.op = "success") =>
          LET names == last'.req.names
              added == Added(files, files')
          IN /\ Len(added) = Len(names)
             /\ \A i \in 1..Len(added) :
                    /\ added[i].originalName = Str(names[i])
                    /\ names[i] = "b.png" =>
                          (added[i].hasError /\ added[i].error = Str("OCR failed"))
                    /\ names[i] = "a.pdf" => ~added[i].hasError
             /\ error' = error]_vars

C12_Witness ==
    /\ last.op = "success"
    /\ last.req.names = <<"a.pdf", "b.png">>
    /\ Len(files) = 2
    /\ ~files[1].hasError
    /\ files[2].hasError
    /\ error = Null

C14_NoClearInFlight == last.op = "clearFiles" => inflight = {}

\* C15: every fulfilled response yields one record per entry, whatever the
\* entries hold: none is rejected and the batch is never dropped.
C15_AppendNeverRejects ==
    [][(Settled /\ (\/ last'.op = "success"
                    \/ (last'.op = "failure" /\ last'.err.cause = "exception"))) =>
          Len(files') = Len(files) + Len(last'.req.names)]_vars

\* C16: a record carries an error string exactly when its hasError is true.
C16_ErrorIffHasError ==
    \A i \in 1..Len(files) : (files[i].error.t = "str") <=> files[i].hasError

\* C17: removeFile with the id of a live record removes that one record, keeps
\* every other record and their order, and leaves error and loading alone.
C17_RemoveOnlyThatRecord ==
    [][(last'.op = "removeFile" /\ Live(last'.fileId)) =>
          /\ \E k \in 1..Len(files) :
                /\ files[k].id = last'.fileId
                /\ files' = SubSeq(files, 1, k - 1) \o SubSeq(files, k + 1, Len(files))
          /\ error' = error
          /\ loading' = loading]_vars

\* C19: loading is true exactly when an upload request is outstanding.
C19_LoadingIffInFlight == loading <=> inflight # {}

\* C18: when every request eventually settles, a state with loading = true is
\* always followed by a state with loading = false.
C18_LoadingEnds == loading ~> ~loading

C18_Witness ==
    /\ ~loading
    /\ inflight = {}
    /\ last.op = "failure"
    /\ last.err.cause = "timeout"

\* C20: a response that arrives after a removal, a clear or another response
\* is appended to the collection as that handler left it: the records there
\* stay in place, nothing removed comes back, and the response's records
\* follow, all of them.
C20_NoLostUpdate ==
    [][(Settled /\ last'.op = "success"
            /\ last.op \in {"removeFile", "clearFiles", "success"}) =>
          LET names == last'.req.names
          IN /\ \A i \in 1..Len(files) : i <= Len(files') /\ files'[i] = files[i]
             /\ Len(files') - Len(files) = Len(names)
             /\ \A i \in 1..Len(names) :
                    Added(files, files')[i].originalName = Str(names[i])]_vars

\* the first request was answered after the second: both batches are there
C20_Witness ==
    /\ last.op = "success"
    /\ last.req.rid = 1
    /\ last.req.names = <<"a.pdf", "b.png">>
    /\ submitted = 2
    /\ inflight = {}
    /\ Len(files) = 3
    /\ files[1].originalName = Str("a.pdf")
    /\ files[2].originalName = Str("a.pdf")
    /\ files[3].originalName = Str("b.png")

====
